---------------------------- MODULE Spec2Model ----------------------------
(***************************************************************************)
(* image_dds, src/decode.rs: Surface::decode_rgba8 and                     *)
(* Surface::decode_rgbaf32, the per-level format dispatch they call        *)
(* (decode_data_rgba8, decode_data_rgbaf32), and the collaborators of the  *)
(* crate they rely on (Surface::validate, Surface::get, mip_dimension, the *)
(* pixel converters of rgba.rs and bcn::rgba_from_bcn).                    *)
(*                                                                         *)
(* One behaviour of the model is one Surface on which decode_rgba8 and     *)
(* then decode_rgbaf32 are called.  A call is a small state machine:       *)
(* validate, then one step per (layer, mipmap) of the nested for loops,    *)
(* then the return of the Ok value; the ? operator is an early return.     *)
(*                                                                         *)
(* u32 is modelled with U32Bits bits (TLC's integers are 32-bit signed, so *)
(* the real width cannot be kept); every overflow check is made against    *)
(* that width.  Buffer offsets (usize) stay far below any overflow.        *)
(***************************************************************************)
EXTENDS Integers, Sequences, FiniteSets, TLC

\* ------------------------------------------------------------------ bounds
U32Bits == 5
MaxLayers == 2
MaxMipmaps == 4
\* mipmaps of tests::decode_surface_too_many_mipmaps.
TestMipmaps == 10

U32Max == 2 ^ U32Bits - 1

Max2(a, b) == IF a >= b THEN a ELSE b

\* -------------------------------------------------------------- ImageFormat
BC8Formats == {"BC1Unorm", "BC1Srgb", "BC4Unorm", "BC4Snorm"}
BC16Formats == {"BC2Unorm", "BC2Srgb", "BC3Unorm", "BC3Srgb", "BC5Unorm",
                "BC5Snorm", "BC6Ufloat", "BC6Sfloat", "BC7Unorm", "BC7Srgb"}
BCFormats == BC8Formats \cup BC16Formats
PackedFormats == {"R8Unorm", "R8G8B8A8Unorm", "R8G8B8A8Srgb",
                  "R16G16B16A16Float", "R32G32B32A32Float",
                  "B8G8R8A8Unorm", "B8G8R8A8Srgb"}
ImageFormat == BCFormats \cup PackedFormats

\* Block footprint in texels: 4x4x1 for every BC variant, 1x1x1 for packed.
block_dimensions(f) == IF f \in BCFormats THEN <<4, 4, 1>> ELSE <<1, 1, 1>>

\* Bytes per block (BC) or per texel (packed).
block_size_in_bytes(f) ==
    CASE f \in BC8Formats -> 8
      [] f \in BC16Formats -> 16
      [] f = "R8Unorm" -> 1
      [] f \in {"R8G8B8A8Unorm", "R8G8B8A8Srgb", "B8G8R8A8Unorm", "B8G8R8A8Srgb"} -> 4
      [] f = "R16G16B16A16Float" -> 8
      [] f = "R32G32B32A32Float" -> 16

\* ------------------------------------------------------------------ geometry
\* mip_dimension(base, level) = max(1, base >> level); a shift by 32 or more
\* bits is taken as yielding 0, so any level beyond the width gives 1.
mip_dimension(base, level) ==
    IF level >= U32Bits THEN 1 ELSE Max2(1, base \div (2 ^ level))

div_round_up(x, d) == (x + d - 1) \div d

\* floor(log2(n)) + 1 for n >= 1: the number of bits of n.
RECURSIVE max_mipmap_count(_)
max_mipmap_count(n) == IF n = 0 THEN 0 ELSE 1 + max_mipmap_count(n \div 2)

\* --------------------------------------------------------------- SurfaceError
ZeroSizedSurface(w, h, d) ==
    [kind |-> "ZeroSizedSurface", width |-> w, height |-> h, depth |-> d]
PixelCountWouldOverflow(w, h, d) ==
    [kind |-> "PixelCountWouldOverflow", width |-> w, height |-> h, depth |-> d]
UnexpectedMipmapCount(m, mx) ==
    [kind |-> "UnexpectedMipmapCount", mipmaps |-> m, max_mipmaps |-> mx]
MipmapDataOutOfBounds(l, m) ==
    [kind |-> "MipmapDataOutOfBounds", layer |-> l, mipmap |-> m]
NotEnoughData(expected, actual) ==
    [kind |-> "NotEnoughData", expected |-> expected, actual |-> actual]

Ok(v) == [tag |-> "Ok", val |-> v]
Err(e) == [tag |-> "Err", err |-> e]
None == [tag |-> "None"]
Some(v) == [tag |-> "Some", val |-> v]

\* ------------------------------------------------------------------ validate
\* Mutant of checked_mul: u32::wrapping_mul, the product taken modulo 2^width.
wrapping_mul(a, b) == Some((a.val * b) % (U32Max + 1))

\* u32::checked_mul at the modelled width.
checked_mul(a, b) ==
    IF a.tag = "None" THEN None
    ELSE IF a.val * b > U32Max THEN None ELSE Some(a.val * b)

\* Surface::validate: the first applicable error, in the order zero size,
\* texel count overflow, mipmap count.  The data length is not looked at.
\* The texel count is multiplied out at the width of the fields (u32).
validate(s) ==
    IF s.width = 0 \/ s.height = 0 \/ s.depth = 0
    THEN Err(ZeroSizedSurface(s.width, s.height, s.depth))
    ELSE IF checked_mul(checked_mul(Some(s.width), s.height), s.depth).tag = "None"
    THEN Err(PixelCountWouldOverflow(s.width, s.height, s.depth))
    ELSE LET max_mipmaps == max_mipmap_count(Max2(Max2(s.width, s.height), s.depth))
         IN IF s.mipmaps > max_mipmaps
            THEN Err(UnexpectedMipmapCount(s.mipmaps, max_mipmaps))
            ELSE Ok(<<>>)

\* ---------------------------------------------------------------------- data
\* The borrowed byte buffer of a Surface.  Its bytes repeat one of a few fixed
\* patterns, so a buffer is kept as [pattern, len] and its bytes are computed
\* where they are read.  The second pattern holds half and single floats inside
\* (0, 1), above 1, negative, and a NaN; the third is the zeroed buffer of the
\* unit tests.
Patterns == << <<0, 255, 17, 128, 64, 200, 1>>,
               <<0, 56, 0, 60, 255, 127, 0, 188, 0, 0, 128, 62, 0, 0, 64, 63, 205, 204, 76, 63>>,
               <<0>> >>

\* data.as_ref().len()
data_len(data) == data.len

\* data.as_ref()[i - 1]
data_byte(data, i) == Patterns[data.pattern][((i - 1) % Len(Patterns[data.pattern])) + 1]

\* &data.as_ref()[offset .. offset + size]
data_slice(data, offset, size) == [i \in 1 .. size |-> data_byte(data, offset + i)]

\* ----------------------------------------------------------------------- get
\* Bytes of one mip level: the block grid of the level's dimensions times the
\* bytes per block.
mip_size(s, mipmap) ==
    LET bd == block_dimensions(s.image_format)
    IN div_round_up(mip_dimension(s.width, mipmap), bd[1])
       * div_round_up(mip_dimension(s.height, mipmap), bd[2])
       * div_round_up(mip_dimension(s.depth, mipmap), bd[3])
       * block_size_in_bytes(s.image_format)

RECURSIVE mips_size(_, _)
\* Bytes of mip levels 0 .. n-1 of one layer.
mips_size(s, n) == IF n = 0 THEN 0 ELSE mips_size(s, n - 1) + mip_size(s, n - 1)

\* Offset of level (layer, mipmap): the full mip chains of the layers before
\* it, then the mips before it in its own layer.
mip_offset(s, layer, mipmap) == layer * mips_size(s, s.mipmaps) + mips_size(s, mipmap)

\* Surface::get: the level's byte range, or None when the indices are out of
\* range or offset + length exceeds the buffer.
get(s, layer, mipmap) ==
    IF layer >= s.layers \/ mipmap >= s.mipmaps THEN None
    ELSE LET offset == mip_offset(s, layer, mipmap)
             size == mip_size(s, mipmap)
         IN IF offset + size > data_len(s.data) THEN None
            ELSE Some(data_slice(s.data, offset, size))


\* ------------------------------------------------------- float to u8, helpers
\* round(255 * clamp(x, 0, 1)) for the half float with bit pattern h.  NaN and
\* every negative value give 0, anything >= 1.0 gives 255.
HalfToU8(h) ==
    LET sign == h \div 32768
        e == (h \div 1024) % 32
        m == h % 1024
        k == 15 - e
        denom == 1024 * (2 ^ k)
    IN IF e = 31 /\ m # 0 THEN 0
       ELSE IF sign = 1 THEN 0
       ELSE IF e >= 15 THEN 255
       ELSE IF e = 0 THEN 0
       ELSE (2 * 255 * (1024 + m) + denom) \div (2 * denom)

\* The same for the f32 with little-endian bytes b0 b1 b2 b3.  With
\* q = 2^23 + mantissa and k = 127 - exponent the value is q / 2^(23+k);
\* floor(255 q / 2^(23+k) + 1/2) is computed on 25-bit numbers as
\* floor((q + 2^(14+k) - ceil(q / 256)) / 2^(15+k)).
SingleToU8(b0, b1, b2, b3) ==
    LET sign == b3 \div 128
        e == (b3 % 128) * 2 + b2 \div 128
        m == (b2 % 128) * 65536 + b1 * 256 + b0
        k == 127 - e
        q == 8388608 + m
    IN IF e = 255 /\ m # 0 THEN 0
       ELSE IF sign = 1 THEN 0
       ELSE IF e >= 127 THEN 255
       ELSE IF k >= 10 THEN 0
       ELSE (q + 2 ^ (14 + k) - ((q + 255) \div 256)) \div (2 ^ (15 + k))

\* An f32 element of an output buffer.  "ratio": the f32 quotient a / b of a
\* u8 by 255.0; "f16": the half float with bit pattern a, widened (value
\* kept); "f32": the f32 with bit pattern a * 65536 + b.
F32Ratio(u) == [kind |-> "ratio", a |-> u, b |-> 255]
F32FromHalf(h) == [kind |-> "f16", a |-> h, b |-> 0]
F32FromBits(b0, b1, b2, b3) == [kind |-> "f32", a |-> b3 * 256 + b2, b |-> b1 * 256 + b0]

\* ---------------------------------------------------- pixel-format converters
\* Each takes (width, height, depth, bytes) and gives width * height * depth
\* texels, row-major, 4 channels each, or an error when bytes is too short.
\* Element i of the output is channel (i - 1) % 4 of texel (i - 1) \div 4.
PackedLengthError(width, height, depth, bpp, data) ==
    IF Len(data) < width * height * depth * bpp
    THEN Some(NotEnoughData(width * height * depth * bpp, Len(data)))
    ELSE None

\* R8: the value goes to R, G = B = 0, A = 255.
rgba8_from_r8(width, height, depth, data) ==
    LET e == PackedLengthError(width, height, depth, 1, data)
    IN IF e.tag = "Some" THEN Err(e.val)
       ELSE Ok([i \in 1 .. 4 * width * height * depth |->
                  CASE (i - 1) % 4 = 0 -> data[(i - 1) \div 4 + 1]
                    [] (i - 1) % 4 = 3 -> 255
                    [] OTHER -> 0])

\* RGBA8: a channel copy.
rgba8_from_rgba8(width, height, depth, data) ==
    LET e == PackedLengthError(width, height, depth, 4, data)
    IN IF e.tag = "Some" THEN Err(e.val)
       ELSE Ok([i \in 1 .. 4 * width * height * depth |-> data[i]])

\* BGRA8: B and R change places.
rgba8_from_bgra8(width, height, depth, data) ==
    LET e == PackedLengthError(width, height, depth, 4, data)
    IN IF e.tag = "Some" THEN Err(e.val)
       ELSE Ok([i \in 1 .. 4 * width * height * depth |->
                  CASE (i - 1) % 4 = 0 -> data[i + 2]
                    [] (i - 1) % 4 = 2 -> data[i - 2]
                    [] OTHER -> data[i]])

\* RGBA f16 to RGBA8: clamp to [0, 1], scale by 255, round to nearest.
rgba8_from_rgbaf16(width, height, depth, data) ==
    LET e == PackedLengthError(width, height, depth, 8, data)
    IN IF e.tag = "Some" THEN Err(e.val)
       ELSE Ok([i \in 1 .. 4 * width * height * depth |->
                  HalfToU8(data[2 * i - 1] + 256 * data[2 * i])])

\* RGBA f32 to RGBA8: clamp to [0, 1], scale by 255, round to nearest.
rgba8_from_rgbaf32(width, height, depth, data) ==
    LET e == PackedLengthError(width, height, depth, 16, data)
    IN IF e.tag = "Some" THEN Err(e.val)
       ELSE Ok([i \in 1 .. 4 * width * height * depth |->
                  SingleToU8(data[4 * i - 3], data[4 * i - 2], data[4 * i - 1], data[4 * i])])

\* RGBA f16 to RGBA f32: each channel widened, value kept.
rgbaf32_from_rgbaf16(width, height, depth, data) ==
    LET e == PackedLengthError(width, height, depth, 8, data)
    IN IF e.tag = "Some" THEN Err(e.val)
       ELSE Ok([i \in 1 .. 4 * width * height * depth |->
                  F32FromHalf(data[2 * i - 1] + 256 * data[2 * i])])

\* RGBA f32 to RGBA f32: passed through.
rgbaf32_from_rgbaf32(width, height, depth, data) ==
    LET e == PackedLengthError(width, height, depth, 16, data)
    IN IF e.tag = "Some" THEN Err(e.val)
       ELSE Ok([i \in 1 .. 4 * width * height * depth |->
                  F32FromBits(data[4 * i - 3], data[4 * i - 2], data[4 * i - 1], data[4 * i])])

\* ------------------------------------------------- block decompression engine
\* The block grid and the texel order of bcn::rgba_from_bcn are modelled as
\* they are: 4x4x1 blocks packed row-major over ceil(w/4) x ceil(h/4) blocks
\* per depth slice, slices in sequence, output row-major with 4 channels.  The
\* bit layout inside a block (endpoints, indices, partitions) is abstracted:
\* BlockValue is a fixed function of the block's bytes (the `bytes` bytes of
\* data after `base`), the texel's place t in the block and the channel, with
\* the channels a format does not store set as the format sets them (BC4:
\* grey, A = 255; BC5: B = 0, A = 255; BC6: A opaque).
BlockValue(data, base, bytes, t, c) == data[base + ((5 * t + 3 * c) % bytes) + 1]

\* The half float pattern BC6 reconstructs for a channel; the unsigned variant
\* has no sign bit.
Bc6Half(signed, data, base, bytes, t, c) ==
    LET h == BlockValue(data, base, bytes, t, c) + 256 * BlockValue(data, base, bytes, t + 1, c)
    IN IF signed THEN h ELSE h % 32768

\* Kind: "Bc1" .. "Bc7"; float: the output element type is f32 (only Bc6 is
\* decoded to f32).
rgba_from_bcn(Kind, signed, float, width, height, depth, data) ==
    LET bw == div_round_up(width, 4)
        bh == div_round_up(height, 4)
        bytes == IF Kind \in {"Bc1", "Bc4"} THEN 8 ELSE 16
        expected == bw * bh * depth * bytes
        Value(x, y, z, c) ==
            LET base == (z * bw * bh + (y \div 4) * bw + (x \div 4)) * bytes
                t == (y % 4) * 4 + (x % 4)
            IN CASE Kind = "Bc4" /\ c < 3 -> BlockValue(data, base, bytes, t, 0)
                 [] Kind = "Bc4" /\ c = 3 -> 255
                 [] Kind = "Bc5" /\ c = 2 -> 0
                 [] Kind = "Bc5" /\ c = 3 -> 255
                 [] Kind = "Bc6" /\ c = 3 -> IF float THEN F32FromHalf(15360) ELSE 255
                 [] Kind = "Bc6" /\ c < 3 ->
                        IF float THEN F32FromHalf(Bc6Half(signed, data, base, bytes, t, c))
                        ELSE HalfToU8(Bc6Half(signed, data, base, bytes, t, c))
                 [] OTHER -> BlockValue(data, base, bytes, t, c)
        Element(i) ==
            LET p == (i - 1) \div 4
            IN Value(p % width, (p \div width) % height, p \div (width * height), (i - 1) % 4)
    IN IF Len(data) # expected THEN Err(NotEnoughData(expected, Len(data)))
       ELSE Ok([i \in 1 .. 4 * width * height * depth |-> Element(i)])

\* ------------------------------------------------------------ format dispatch
\* decode_data_rgba8: the match over image_format.
decode_data_rgba8(width, height, depth, image_format, data) ==
    CASE image_format \in {"BC1Unorm", "BC1Srgb"} ->
            rgba_from_bcn("Bc1", FALSE, FALSE, width, height, depth, data)
      [] image_format \in {"BC2Unorm", "BC2Srgb"} ->
            rgba_from_bcn("Bc2", FALSE, FALSE, width, height, depth, data)
      [] image_format \in {"BC3Unorm", "BC3Srgb"} ->
            rgba_from_bcn("Bc3", FALSE, FALSE, width, height, depth, data)
      [] image_format \in {"BC4Unorm", "BC4Snorm"} ->
            rgba_from_bcn("Bc4", FALSE, FALSE, width, height, depth, data)
      [] image_format \in {"BC5Unorm", "BC5Snorm"} ->
            rgba_from_bcn("Bc5", FALSE, FALSE, width, height, depth, data)
      [] image_format \in {"BC6Ufloat", "BC6Sfloat"} ->
            rgba_from_bcn("Bc6", image_format = "BC6Sfloat", FALSE, width, height, depth, data)
      [] image_format \in {"BC7Unorm", "BC7Srgb"} ->
            rgba_from_bcn("Bc7", FALSE, FALSE, width, height, depth, data)
      [] image_format = "R8Unorm" -> rgba8_from_r8(width, height, depth, data)
      [] image_format = "R8G8B8A8Unorm" -> rgba8_from_rgba8(width, height, depth, data)
      [] image_format = "R8G8B8A8Srgb" -> rgba8_from_rgba8(width, height, depth, data)
      [] image_format = "R16G16B16A16Float" -> rgba8_from_rgbaf16(width, height, depth, data)
      [] image_format = "R32G32B32A32Float" -> rgba8_from_rgbaf32(width, height, depth, data)
      [] image_format = "B8G8R8A8Unorm" -> rgba8_from_bgra8(width, height, depth, data)
      [] image_format = "B8G8R8A8Srgb" -> rgba8_from_bgra8(width, height, depth, data)

\* Mutant of WidenRgba8: the division is by 256.
WidenRgba8By256(rgba8) == [i \in 1 .. Len(rgba8) |-> [kind |-> "ratio", a |-> rgba8[i], b |-> 256]]

\* rgba8.into_iter().map(|u| u as f32 / 255.0).collect()
WidenRgba8(rgba8) == [i \in 1 .. Len(rgba8) |-> F32Ratio(rgba8[i])]

\* decode_data_rgbaf32: the float formats have decoders of their own, every
\* other format is decoded to RGBA8 and widened.
decode_data_rgbaf32(width, height, depth, image_format, data) ==
    CASE image_format \in {"BC6Ufloat", "BC6Sfloat"} ->
            rgba_from_bcn("Bc6", image_format = "BC6Sfloat", TRUE, width, height, depth, data)
      [] image_format = "R16G16B16A16Float" -> rgbaf32_from_rgbaf16(width, height, depth, data)
      [] image_format = "R32G32B32A32Float" -> rgbaf32_from_rgbaf32(width, height, depth, data)
      [] OTHER ->
            LET rgba8 == decode_data_rgba8(width, height, depth, image_format, data)
            IN IF rgba8.tag = "Err" THEN rgba8 ELSE Ok(WidenRgba8(rgba8.val))

\* ------------------------------------------------------------------- state
VARIABLES
    surface,    \* the Surface both calls are made on; never changed
    pc,         \* pc[c]: where call c stands: "call", "loop" or "returned"
    layer,      \* layer[c]: the outer loop's variable
    mipmap,     \* mipmap[c]: the inner loop's variable
    combined_surface_data, \* combined_surface_data[c]: the buffer being built
    result,     \* result[c]: what call c returned, once it has
    validations, \* validations[c]: history: the calls of self.validate() made
    lookups     \* lookups[c]: history: each self.get(layer, mipmap) made, with
                \* the length of the buffer at that moment and what it found

vars == <<surface, pc, layer, mipmap, combined_surface_data, result, validations, lookups>>

Calls == {"decode_rgba8", "decode_rgbaf32"}

\* ------------------------------------------------------------------ inputs
\* (width, height, depth) of mip 0: small surfaces of one or two blocks, with
\* and without depth, some of them past the texel count a u32 holds; the
\* widest surface there is; a zero in each place; and u32::MAX everywhere.
Dimensions ==
    {<<1, 1, 1>>, <<5, 1, 1>>, <<4, 4, 1>>, <<5, 4, 1>>,
     <<4, 1, 2>>, <<4, 4, 2>>, <<U32Max, 4, 2>>,
     <<U32Max, 1, 1>>, <<U32Max, U32Max, U32Max>>, <<1, U32Max, 2>>,
     <<0, 0, 0>>, <<0, 4, 1>>, <<4, 0, 1>>, <<4, 4, 0>>}
MipmapCounts == 0 .. MaxMipmaps

\* Buffer lengths for a surface of the given geometry: empty, one byte short
\* of the end of each level (that level is the first one missing), exactly
\* all levels, and one byte too many.
DataLens(g) ==
    LET total == g.layers * mips_size(g, g.mipmaps)
        ends == {mip_offset(g, l, m) + mip_size(g, m) :
                    l \in 0 .. g.layers - 1, m \in 0 .. g.mipmaps - 1}
    IN {0, total, total + 1} \cup {e - 1 : e \in ends}

\* The surfaces of the three unit tests of decode.rs.
TestSurface(w, h, d, m, len) ==
    [width |-> w, height |-> h, depth |-> d, layers |-> 1, mipmaps |-> m,
     image_format |-> "R8G8B8A8Srgb", data |-> [pattern |-> 3, len |-> len]]
ZeroSizeTest == TestSurface(0, 0, 0, 1, 0)
DimensionsOverflowTest == TestSurface(U32Max, U32Max, U32Max, 1, 0)
TooManyMipmapsTest == TestSurface(4, 4, 1, TestMipmaps, 4 * 4 * 4)

TestSurfaces == {ZeroSizeTest, DimensionsOverflowTest, TooManyMipmapsTest}

Init ==
    /\ \/ surface \in TestSurfaces
       \/ \E whd \in Dimensions, l \in 0 .. MaxLayers, m \in MipmapCounts,
             f \in ImageFormat, p \in {1, 2} :
             LET g == [width |-> whd[1], height |-> whd[2], depth |-> whd[3],
                       layers |-> l, mipmaps |-> m, image_format |-> f]
             IN \E len \in DataLens(g) :
                   surface = [width |-> g.width, height |-> g.height, depth |-> g.depth,
                              layers |-> l, mipmaps |-> m, image_format |-> f,
                              data |-> [pattern |-> p, len |-> len]]
    /\ pc = [c \in Calls |-> "call"]
    /\ layer = [c \in Calls |-> 0]
    /\ mipmap = [c \in Calls |-> 0]
    /\ combined_surface_data = [c \in Calls |-> <<>>]
    /\ result = [c \in Calls |-> None]
    /\ validations = [c \in Calls |-> 0]
    /\ lookups = [c \in Calls |-> <<>>]

\* -------------------------------------------------------------- orchestrator
\* Mutant of LookupLevel: the error's fields filled the wrong way round.
LookupLevelSwapped(s, l, m) ==
    LET data == get(s, l, m)
    IN IF data.tag = "None" THEN Err(MipmapDataOutOfBounds(m, l)) ELSE Ok(data.val)

\* self.get(layer, mipmap).ok_or(SurfaceError::MipmapDataOutOfBounds { .. })
LookupLevel(s, l, m) ==
    LET data == get(s, l, m)
    IN IF data.tag = "None" THEN Err(MipmapDataOutOfBounds(l, m)) ELSE Ok(data.val)

\* The level's dimensions and its decode to RGBA8.
DecodeLevelRgba8(s, m, data) ==
    decode_data_rgba8(mip_dimension(s.width, m), mip_dimension(s.height, m),
                      mip_dimension(s.depth, m), s.image_format, data)

\* The level's dimensions and its decode to RGBAF32.
DecodeLevelRgbaf32(s, m, data) ==
    decode_data_rgbaf32(mip_dimension(s.width, m), mip_dimension(s.height, m),
                        mip_dimension(s.depth, m), s.image_format, data)

\* Mutant of NextIteration: the inner loop is left after its first iteration.
NextIterationBaseOnly(s, l, m) == <<l + 1, 0>>

\* Mutant of NextIteration: the loops nested the other way round, mipmaps
\* outside and layers inside.
NextIterationMipMajor(s, l, m) ==
    IF l + 1 < s.layers THEN <<l + 1, m>>
    ELSE IF m + 1 < s.mipmaps THEN <<0, m + 1>> ELSE <<s.layers, 0>>

\* for layer in 0..self.layers { for mipmap in 0..self.mipmaps { .. } }: the
\* iteration that follows (l, m).
NextIteration(s, l, m) == IF m + 1 < s.mipmaps THEN <<l, m + 1>> ELSE <<l + 1, 0>>

\* No iteration of the loop body is left.
LoopDone(c) == layer[c] >= surface.layers \/ surface.mipmaps = 0

\* The Ok value: the input's geometry and the combined buffer.
DecodedSurface(s, data) ==
    [width |-> s.width, height |-> s.height, depth |-> s.depth,
     layers |-> s.layers, mipmaps |-> s.mipmaps, data |-> data]

\* Mutant of ValidateStep: the Result of validate is dropped (no ?).
ValidateStepUnchecked(c) ==
    /\ pc[c] = "call"
    /\ pc' = [pc EXCEPT ![c] = "loop"]
    /\ validations' = [validations EXCEPT ![c] = @ + 1]
    /\ UNCHANGED <<surface, layer, mipmap, combined_surface_data, result, lookups>>

\* Mutant of ValidateStep: a mipmap count that is too large is let through.
ValidateStepLenientMipmaps(c) ==
    /\ pc[c] = "call"
    /\ LET v == validate(surface)
       IN IF v.tag = "Err" /\ v.err.kind # "UnexpectedMipmapCount"
          THEN /\ result' = [result EXCEPT ![c] = v]
               /\ pc' = [pc EXCEPT ![c] = "returned"]
          ELSE /\ pc' = [pc EXCEPT ![c] = "loop"]
               /\ UNCHANGED result
    /\ validations' = [validations EXCEPT ![c] = @ + 1]
    /\ UNCHANGED <<surface, layer, mipmap, combined_surface_data, lookups>>

\* Mutant of ValidateStep: an empty buffer is rejected before validation.
ValidateStepDataFirst(c) ==
    /\ pc[c] = "call"
    /\ LET v == IF data_len(surface.data) = 0
                THEN Err(MipmapDataOutOfBounds(0, 0)) ELSE validate(surface)
       IN IF v.tag = "Err"
          THEN /\ result' = [result EXCEPT ![c] = v]
               /\ pc' = [pc EXCEPT ![c] = "returned"]
          ELSE /\ pc' = [pc EXCEPT ![c] = "loop"]
               /\ UNCHANGED result
    /\ validations' = [validations EXCEPT ![c] = @ + 1]
    /\ UNCHANGED <<surface, layer, mipmap, combined_surface_data, lookups>>

\* self.validate()?; let mut combined_surface_data = Vec::new();
ValidateStep(c) ==
    /\ pc[c] = "call"
    /\ LET v == validate(surface)
       IN IF v.tag = "Err"
          THEN /\ result' = [result EXCEPT ![c] = v]
               /\ pc' = [pc EXCEPT ![c] = "returned"]
          ELSE /\ pc' = [pc EXCEPT ![c] = "loop"]
               /\ UNCHANGED result
    /\ validations' = [validations EXCEPT ![c] = @ + 1]
    /\ UNCHANGED <<surface, layer, mipmap, combined_surface_data, lookups>>

\* The per-level decoder each of the two functions calls.
DecodeLevel(c, s, m, data) ==
    IF c = "decode_rgba8" THEN DecodeLevelRgba8(s, m, data) ELSE DecodeLevelRgbaf32(s, m, data)

\* Mutant of LevelStep: on a failure the levels decoded so far are returned
\* as the output.
LevelStepPartial(c) ==
    /\ pc[c] = "loop"
    /\ ~LoopDone(c)
    /\ \E data \in {LookupLevel(surface, layer[c], mipmap[c])} :
       \E decoded \in {IF data.tag = "Err" THEN data
                        ELSE DecodeLevel(c, surface, mipmap[c], data.val)} :
       LET l == layer[c]
           m == mipmap[c]
           next == NextIteration(surface, l, m)
       IN /\ lookups' = [lookups EXCEPT ![c] =
                 Append(@, [layer |-> l, mipmap |-> m,
                            at |-> Len(combined_surface_data[c]),
                            found |-> data.tag = "Ok"])]
          /\ IF decoded.tag = "Err"
             THEN /\ result' = [result EXCEPT ![c] =
                        Ok(DecodedSurface(surface, combined_surface_data[c]))]
                  /\ pc' = [pc EXCEPT ![c] = "returned"]
                  /\ combined_surface_data' = [combined_surface_data EXCEPT ![c] = <<>>]
                  /\ UNCHANGED <<layer, mipmap>>
             ELSE /\ combined_surface_data' =
                        [combined_surface_data EXCEPT ![c] = @ \o decoded.val]
                  /\ layer' = [layer EXCEPT ![c] = next[1]]
                  /\ mipmap' = [mipmap EXCEPT ![c] = next[2]]
                  /\ UNCHANGED <<pc, result>>
    /\ UNCHANGED <<surface, validations>>

\* One iteration of the loop body: the lookup, the decode, the append; an Err
\* from either is returned at once, and the buffer built so far is dropped.
\* (data and decoded are bound by \E over a singleton so that each is
\* computed once.)
LevelStep(c) ==
    /\ pc[c] = "loop"
    /\ ~LoopDone(c)
    /\ \E data \in {LookupLevel(surface, layer[c], mipmap[c])} :
       \E decoded \in {IF data.tag = "Err" THEN data
                        ELSE DecodeLevel(c, surface, mipmap[c], data.val)} :
       LET l == layer[c]
           m == mipmap[c]
           next == NextIteration(surface, l, m)
       IN /\ lookups' = [lookups EXCEPT ![c] =
                 Append(@, [layer |-> l, mipmap |-> m,
                            at |-> Len(combined_surface_data[c]),
                            found |-> data.tag = "Ok"])]
          /\ IF decoded.tag = "Err"
             THEN /\ result' = [result EXCEPT ![c] = decoded]
                  /\ pc' = [pc EXCEPT ![c] = "returned"]
                  /\ combined_surface_data' = [combined_surface_data EXCEPT ![c] = <<>>]
                  /\ UNCHANGED <<layer, mipmap>>
             ELSE /\ combined_surface_data' =
                        [combined_surface_data EXCEPT ![c] = @ \o decoded.val]
                  /\ layer' = [layer EXCEPT ![c] = next[1]]
                  /\ mipmap' = [mipmap EXCEPT ![c] = next[2]]
                  /\ UNCHANGED <<pc, result>>
    /\ UNCHANGED <<surface, validations>>

\* Ok(Surface.. { width, height, depth, layers, mipmaps, data }): the buffer
\* is moved into the returned surface.
ReturnStep(c) ==
    /\ pc[c] = "loop"
    /\ LoopDone(c)
    /\ result' = [result EXCEPT ![c] = Ok(DecodedSurface(surface, combined_surface_data[c]))]
    /\ combined_surface_data' = [combined_surface_data EXCEPT ![c] = <<>>]
    /\ pc' = [pc EXCEPT ![c] = "returned"]
    /\ UNCHANGED <<surface, layer, mipmap, validations, lookups>>

\* Surface::decode_rgba8
Rgba8Validate == ValidateStep("decode_rgba8")
Rgba8Level == LevelStep("decode_rgba8")
Rgba8Return == ReturnStep("decode_rgba8")

\* Mutant of Rgbaf32Validate: decode_rgbaf32 without its self.validate()?.
Rgbaf32SkipValidate ==
    /\ pc["decode_rgba8"] = "returned"
    /\ ValidateStepUnchecked("decode_rgbaf32")

\* Surface::decode_rgbaf32, called on the same surface once decode_rgba8 has
\* returned.
Rgbaf32Validate == pc["decode_rgba8"] = "returned" /\ ValidateStep("decode_rgbaf32")
Rgbaf32Level == LevelStep("decode_rgbaf32")
Rgbaf32Return == ReturnStep("decode_rgbaf32")

Next ==
    \/ Rgba8Validate
    \/ Rgba8Level
    \/ Rgba8Return
    \/ Rgbaf32Validate
    \/ Rgbaf32Level
    \/ Rgbaf32Return

Spec == Init /\ [][Next]_vars

\* ===================================================================== claims
R8 == result["decode_rgba8"]
R32 == result["decode_rgbaf32"]
Returned(c) == pc[c] = "returned"
\* Call c has returned and nothing has happened since.
JustReturned(c) ==
    /\ Returned(c)
    /\ c = "decode_rgba8" => pc["decode_rgbaf32"] = "call"
IsErr(r, kind) == r.tag = "Err" /\ r.err.kind = kind

\* The reference quantities the claims are stated with, written from the
\* claims' own words and not from the operators of the model.
LevelDim(base, m) == Max2(1, base \div (2 ^ m))
LevelTexels(s, m) == LevelDim(s.width, m) * LevelDim(s.height, m) * LevelDim(s.depth, m)
ZeroSized(s) == s.width = 0 \/ s.height = 0 \/ s.depth = 0
Overflows(s) == ~ZeroSized(s) /\ s.width * s.height * s.depth > U32Max
MaxDim(s) == Max2(s.width, Max2(s.height, s.depth))
\* floor(log2(n)) + 1 for n >= 1.
FloorLog2Plus1(n) == CHOOSE k \in 1 .. U32Bits : 2 ^ (k - 1) <= n /\ n < 2 ^ k
TooManyMipmaps(s) ==
    ~ZeroSized(s) /\ ~Overflows(s) /\ s.mipmaps > FloorLog2Plus1(MaxDim(s))
PassesValidation(s) == ~ZeroSized(s) /\ ~Overflows(s) /\ ~TooManyMipmaps(s)

\* The levels in layer-major, mip-minor order: level i (from 1) is
\* (layer, mipmap) = LevelAt(s, i).
LevelCount(s) == s.layers * s.mipmaps
LevelAt(s, i) == <<(i - 1) \div s.mipmaps, (i - 1) % s.mipmaps>>
RECURSIVE ElementsBefore(_, _)
\* Output elements of the levels before level i.
ElementsBefore(s, i) ==
    IF i <= 1 THEN 0
    ELSE ElementsBefore(s, i - 1) + 4 * LevelTexels(s, LevelAt(s, i - 1)[2])
RECURSIVE BytesBefore(_, _)
\* Input bytes of the levels before level i.
BytesBefore(s, i) ==
    IF i <= 1 THEN 0 ELSE BytesBefore(s, i - 1) + mip_size(s, LevelAt(s, i - 1)[2])
\* Level i's byte range ends past the buffer.
LevelMissing(s, i) == BytesBefore(s, i + 1) > data_len(s.data)
DataCovers(s) == \A i \in 1 .. LevelCount(s) : ~LevelMissing(s, i)

\* C1: for a surface that passes validation and whose data covers every
\* level, decode_rgba8 returns Ok with a buffer of exactly the sum over all
\* layers and mipmaps of level_width * level_height * level_depth * 4
\* elements, each level dimension being max(1, base >> mipmap).
C1_OutputLength ==
    (Returned("decode_rgba8") /\ PassesValidation(surface) /\ DataCovers(surface))
    => /\ R8.tag = "Ok"
       /\ Len(R8.val.data) = ElementsBefore(surface, LevelCount(surface) + 1)

C1_Witness ==
    /\ Returned("decode_rgba8") /\ R8.tag = "Ok"
    /\ surface.width = 5 /\ surface.height = 4
    /\ surface.layers = 2 /\ surface.mipmaps = 3
    /\ surface.image_format = "BC3Unorm"
    /\ Len(R8.val.data) = 2 * (5 * 4 + 2 * 2 + 1 * 1) * 4

\* C2: a surface with a zero width, height or depth makes both decoders fail
\* with ZeroSizedSurface carrying its width, height and depth, whatever the
\* format, layers, mipmaps and data.
C2_ZeroSized ==
    \A c \in Calls :
        (Returned(c) /\ ZeroSized(surface))
        => result[c] = Err(ZeroSizedSurface(surface.width, surface.height, surface.depth))

C2_Witness ==
    /\ Returned("decode_rgba8") /\ Returned("decode_rgbaf32")
    /\ surface.width = 4 /\ surface.height = 0 /\ surface.depth = 1
    /\ surface.layers = 2 /\ surface.mipmaps = 2 /\ data_len(surface.data) > 0
    /\ surface.image_format = "BC7Unorm"
    /\ IsErr(R8, "ZeroSizedSurface") /\ IsErr(R32, "ZeroSizedSurface")

\* C3: with nonzero dimensions and a texel count that does not overflow,
\* decoding fails with UnexpectedMipmapCount exactly when mipmaps exceeds
\* max_mipmaps = floor(log2(max(width, height, depth))) + 1, and the error
\* carries mipmaps and max_mipmaps (4x4x1 with 10 mipmaps: max_mipmaps = 3).
C3_MipmapCount ==
    \A c \in Calls :
        (Returned(c) /\ ~ZeroSized(surface) /\ ~Overflows(surface))
        => LET max_mipmaps == FloorLog2Plus1(MaxDim(surface))
           IN /\ IsErr(result[c], "UnexpectedMipmapCount") <=> surface.mipmaps > max_mipmaps
              /\ surface.mipmaps > max_mipmaps
                 => result[c] = Err(UnexpectedMipmapCount(surface.mipmaps, max_mipmaps))

C3_Witness ==
    /\ surface = TooManyMipmapsTest
    /\ Returned("decode_rgba8")
    /\ R8 = Err(UnexpectedMipmapCount(10, 3))

\* C4: with nonzero dimensions, a product width * height * depth past what a
\* u32 holds makes decoding fail with PixelCountWouldOverflow carrying the
\* three dimensions; the wrapped product never lets the surface through.
C4_PixelCountOverflow ==
    \A c \in Calls :
        (Returned(c) /\ Overflows(surface))
        => result[c] = Err(PixelCountWouldOverflow(surface.width, surface.height, surface.depth))

C4_Witness ==
    /\ surface = DimensionsOverflowTest
    /\ Returned("decode_rgba8")
    /\ R8 = Err(PixelCountWouldOverflow(U32Max, U32Max, U32Max))

\* C5: for a surface that passes validation and whose data is shorter than
\* its levels need, both decoders fail with MipmapDataOutOfBounds naming the
\* first level, in layer-major then mip-minor order, whose byte range ends
\* past the buffer.
C5_FirstMissingLevel ==
    \A c \in Calls :
        (Returned(c) /\ PassesValidation(surface) /\ ~DataCovers(surface))
        => LET first == CHOOSE i \in 1 .. LevelCount(surface) :
                            /\ LevelMissing(surface, i)
                            /\ \A j \in 1 .. i - 1 : ~LevelMissing(surface, j)
               level == LevelAt(surface, first)
           IN result[c] = Err(MipmapDataOutOfBounds(level[1], level[2]))

C5_Witness ==
    /\ Returned("decode_rgba8") /\ Returned("decode_rgbaf32")
    /\ surface.layers = 2 /\ surface.mipmaps = 3
    /\ R8 = Err(MipmapDataOutOfBounds(1, 2))
    /\ R32 = Err(MipmapDataOutOfBounds(1, 2))

FloatFormats == {"BC6Ufloat", "BC6Sfloat", "R16G16B16A16Float", "R32G32B32A32Float"}

\* C6: for every format but the four float formats, decode_rgbaf32 succeeds
\* exactly when decode_rgba8 does, and element i of its output is element i of
\* the decode_rgba8 output divided by 255.
C6_FloatIsRgba8Over255 ==
    (Returned("decode_rgba8") /\ Returned("decode_rgbaf32")
     /\ surface.image_format \notin FloatFormats)
    => /\ R32.tag = "Ok" <=> R8.tag = "Ok"
       /\ R8.tag = "Ok" =>
            /\ Len(R32.val.data) = Len(R8.val.data)
            /\ \A i \in 1 .. Len(R8.val.data) :
                  R32.val.data[i] = [kind |-> "ratio", a |-> R8.val.data[i], b |-> 255]

C6_Witness ==
    /\ Returned("decode_rgba8") /\ Returned("decode_rgbaf32")
    /\ surface.image_format = "B8G8R8A8Unorm"
    /\ surface.layers = 2 /\ surface.mipmaps = 2
    /\ R8.tag = "Ok" /\ R32.tag = "Ok"
    /\ Len(R32.val.data) = 2 * (4 * 4 + 2 * 2) * 4
    /\ R8.val.data[1] = 17
    /\ R32.val.data[1] = [kind |-> "ratio", a |-> 17, b |-> 255]

\* C7: decoding is all-or-nothing.  The levels looked up are always a prefix
\* of the layer-major order; only the last lookup can have failed, so no level
\* is looked up after a failure; a call that met a failure has returned that
\* error, which carries no output buffer; and an Ok is returned only after
\* every level was looked up and found.
C7_AllOrNothing ==
    \A c \in Calls :
        LET n == Len(lookups[c])
        IN /\ n <= LevelCount(surface)
           /\ \A i \in 1 .. n :
                 /\ <<lookups[c][i].layer, lookups[c][i].mipmap>> = LevelAt(surface, i)
                 /\ i < n => lookups[c][i].found
           /\ (n > 0 /\ ~lookups[c][n].found)
              => /\ Returned(c)
                 /\ result[c] = Err(MipmapDataOutOfBounds(lookups[c][n].layer,
                                                          lookups[c][n].mipmap))
           /\ (Returned(c) /\ result[c].tag = "Err") => DOMAIN result[c] = {"tag", "err"}
           /\ Returned(c) => combined_surface_data[c] = <<>>
           /\ (Returned(c) /\ result[c].tag = "Ok")
              => /\ n = LevelCount(surface)
                 /\ \A i \in 1 .. n : lookups[c][i].found

C7_Witness ==
    /\ Returned("decode_rgba8")
    /\ surface.layers = 2 /\ surface.mipmaps = 3
    /\ R8 = Err(MipmapDataOutOfBounds(0, 2))
    /\ Len(lookups["decode_rgba8"]) = 3
    /\ lookups["decode_rgba8"][3].at > 0

\* The error validation reports for a surface, in its fixed order.
FirstStructuralError(s) ==
    CASE ZeroSized(s) -> ZeroSizedSurface(s.width, s.height, s.depth)
      [] Overflows(s) -> PixelCountWouldOverflow(s.width, s.height, s.depth)
      [] TooManyMipmaps(s) -> UnexpectedMipmapCount(s.mipmaps, FloorLog2Plus1(MaxDim(s)))

\* C8: validation runs once, before any per-level lookup, and returns the
\* first applicable error in the order ZeroSizedSurface,
\* PixelCountWouldOverflow, UnexpectedMipmapCount, whatever the data length: a
\* surface that fails a structural check fails with that error and without a
\* single lookup, never with MipmapDataOutOfBounds.
C8_ValidationFirst ==
    \A c \in Calls :
        /\ validations[c] <= 1
        /\ (lookups[c] # <<>> \/ Returned(c)) => validations[c] = 1
        /\ ~PassesValidation(surface) => lookups[c] = <<>>
        /\ (Returned(c) /\ ~PassesValidation(surface))
           => result[c] = Err(FirstStructuralError(surface))
        /\ pc[c] = "loop" => PassesValidation(surface)

C8_Witness ==
    /\ Returned("decode_rgba8") /\ Returned("decode_rgbaf32")
    /\ surface.width = 4 /\ surface.height = 4 /\ surface.depth = 2
    /\ surface.mipmaps = 4 /\ surface.layers = 2 /\ data_len(surface.data) = 0
    /\ Overflows(surface) /\ surface.mipmaps > FloorLog2Plus1(MaxDim(surface))
    /\ IsErr(R8, "PixelCountWouldOverflow") /\ IsErr(R32, "PixelCountWouldOverflow")

\* C9: on success the output is the concatenation of the decoded levels in
\* layer-major, mip-inner order: each level is visited exactly once, in that
\* order, its block starts at the sum of the output sizes of the levels
\* before it, and the block is that level's decoded texels.  (Stated of the
\* value at the moment it is returned.)
C9_OutputLayout ==
    \A c \in Calls :
        (JustReturned(c) /\ result[c].tag = "Ok")
        => LET out == result[c].val.data
           IN /\ Len(lookups[c]) = LevelCount(surface)
              /\ Len(out) = ElementsBefore(surface, LevelCount(surface) + 1)
              /\ \A i \in 1 .. LevelCount(surface) :
                    \A block \in {DecodeLevel(c, surface, LevelAt(surface, i)[2],
                                      data_slice(surface.data, BytesBefore(surface, i),
                                                 mip_size(surface, LevelAt(surface, i)[2])))} :
                    LET l == LevelAt(surface, i)[1]
                        m == LevelAt(surface, i)[2]
                        start == ElementsBefore(surface, i)
                    IN /\ lookups[c][i] = [layer |-> l, mipmap |-> m, at |-> start,
                                           found |-> TRUE]
                       /\ block.tag = "Ok"
                       /\ SubSeq(out, start + 1, start + 4 * LevelTexels(surface, m)) = block.val

C9_Witness ==
    /\ Returned("decode_rgbaf32") /\ R32.tag = "Ok" /\ R8.tag = "Ok"
    /\ surface.layers = 2 /\ surface.mipmaps = 3 /\ surface.width = 5
    /\ surface.image_format = "R8Unorm"
    /\ lookups["decode_rgba8"][5] = [layer |-> 1, mipmap |-> 1, found |-> TRUE,
                                     at |-> (5 * 4 + 2 * 2 + 1 + 5 * 4) * 4]

StructuralKinds == {"ZeroSizedSurface", "PixelCountWouldOverflow",
                    "UnexpectedMipmapCount", "MipmapDataOutOfBounds"}

Geometry(r) == <<r.width, r.height, r.depth, r.layers, r.mipmaps>>

\* C10: for every surface and format the two decoders agree on the
\* structural and bounds outcome: if one fails with ZeroSizedSurface,
\* PixelCountWouldOverflow, UnexpectedMipmapCount or MipmapDataOutOfBounds the
\* other fails with the identical error, and when both succeed both outputs
\* carry the input's width, height, depth, layers and mipmaps.
C10_DecodersAgree ==
    (Returned("decode_rgba8") /\ Returned("decode_rgbaf32"))
    => /\ (R8.tag = "Err" /\ R8.err.kind \in StructuralKinds) => R32 = R8
       /\ (R32.tag = "Err" /\ R32.err.kind \in StructuralKinds) => R8 = R32
       /\ (R8.tag = "Ok" /\ R32.tag = "Ok")
          => /\ Geometry(R8.val) = Geometry(surface)
             /\ Geometry(R32.val) = Geometry(surface)

C10_Witness ==
    /\ Returned("decode_rgba8") /\ Returned("decode_rgbaf32")
    /\ surface.image_format = "R32G32B32A32Float"
    /\ surface.layers = 2 /\ surface.mipmaps = 2
    /\ R8 = Err(MipmapDataOutOfBounds(1, 0)) /\ R32 = R8

=============================================================================
